---- MODULE Spec2Model ----
(***************************************************************************)
(* State-machine model of the AFIP registry client (src/afip_service.py)   *)
(* and of the report pipeline that drives it (src/nit_errors_report.py).   *)
(***************************************************************************)
EXTENDS Integers, Sequences, FiniteSets, TLC

(***************************************************************************)
(* Bounds of the model.                                                    *)
(***************************************************************************)
MaxLen == 3          \* longest identifier list handed to the client
MaxChunk == 2        \* largest configured chunk_size
MaxRetries == 2      \* largest configured max_retries
MaxCalls == 1        \* largest configured max_calls
CountSize == 4       \* largest len(ids) + max_retries of a fetch whose cost is counted

(***************************************************************************)
(* Python / JSON values as tagged records.  None, strings, lists and       *)
(* dicts; a raised exception is a value of its own so that an operation's  *)
(* outcome is always one value.                                            *)
(***************************************************************************)
None == [t |-> "none", v |-> "none"]
Scalar(s) == [t |-> "scalar", v |-> s]
List(s) == [t |-> "list", v |-> s]
Map(f) == [t |-> "map", v |-> f]
Raise(e) == [t |-> "raise", v |-> e]
NonJSON == [t |-> "nonjson", v |-> "text"]

EmptyList == List(<<>>)
EmptyMap == Map(<<>>)

\* Python truthiness of the values the client tests with `if x:` / `if not x:`
Truthy(x) ==
    CASE x.t = "none" -> FALSE
      [] x.t = "scalar" -> x.v # ""
      [] x.t = "list" -> x.v # <<>>
      [] x.t = "map" -> DOMAIN x.v # {}
      [] OTHER -> TRUE

IsRaise(x) == x.t = "raise"

\* dict.get(key, default)
Get(m, key, default) == IF key \in DOMAIN m.v THEN m.v[key] ELSE default

Min(a, b) == IF a < b THEN a ELSE b

(***************************************************************************)
(* clean_dict: src/afip_service.py 320-329                                 *)
(***************************************************************************)
\* variants of the test of line 324: one that drops empty mappings too, one that
\* drops every falsy value
RECURSIVE CleanDropsEmptyMaps(_)
CleanDropsEmptyMaps(data) ==
    IF data.t = "map"
    THEN Map([key \in {k \in DOMAIN data.v : data.v[k] \notin {None, EmptyList, EmptyMap}}
                 |-> CleanDropsEmptyMaps(data.v[key])])
    ELSE IF data.t = "list"
    THEN List([i \in 1..Len(data.v) |-> CleanDropsEmptyMaps(data.v[i])])
    ELSE data

RECURSIVE CleanDropsFalsy(_)
CleanDropsFalsy(data) ==
    IF data.t = "map"
    THEN Map([key \in {k \in DOMAIN data.v : Truthy(data.v[k])}
                 |-> CleanDropsFalsy(data.v[key])])
    ELSE IF data.t = "list"
    THEN List([i \in 1..Len(data.v) |-> CleanDropsFalsy(data.v[i])])
    ELSE data

RECURSIVE clean_dict(_)
clean_dict(data) ==
    IF data.t = "map"
    THEN Map([key \in {k \in DOMAIN data.v : data.v[k] \notin {None, EmptyList}}
                 |-> clean_dict(data.v[key])])
    ELSE IF data.t = "list"
    THEN List([i \in 1..Len(data.v) |-> clean_dict(data.v[i])])
    ELSE data

(***************************************************************************)
(* format_response: src/afip_service.py 350-354.  dict.update(item) merges *)
(* a mapping, is a no-op for an empty list and raises for None or a        *)
(* non-empty string.                                                       *)
(***************************************************************************)
\* an update that keeps the entry already held for a key
DictUpdateKeepsFirst(formatted, item) ==
    IF item.t = "map"
    THEN Map([k \in DOMAIN formatted.v \cup DOMAIN item.v |->
                 IF k \in DOMAIN formatted.v THEN formatted.v[k] ELSE item.v[k]])
    ELSE IF item = EmptyList THEN formatted
    ELSE IF item.t = "none" THEN Raise("TypeError")
    ELSE Raise("ValueError")

dict_update(formatted, item) ==
    IF item.t = "map"
    THEN Map([k \in DOMAIN formatted.v \cup DOMAIN item.v |->
                 IF k \in DOMAIN item.v THEN item.v[k] ELSE formatted.v[k]])
    ELSE IF item = EmptyList THEN formatted
    ELSE IF item.t = "none" THEN Raise("TypeError")
    ELSE Raise("ValueError")

RECURSIVE FoldUpdate(_, _, _)
FoldUpdate(formatted, data, i) ==
    IF i > Len(data) THEN formatted
    ELSE LET next == dict_update(formatted, data[i])
         IN IF IsRaise(next) THEN next ELSE FoldUpdate(next, data, i + 1)

format_response(data) == FoldUpdate(EmptyMap, data, 1)

(***************************************************************************)
(* extract_errors: src/afip_service.py 375-407 (record is a mapping,       *)
(* error_keys a sequence of key names; the result is the Python list       *)
(* `errors` as a sequence).                                                *)
(***************************************************************************)
ErrorsOfKey(record, key) ==
    IF key \in DOMAIN record.v
    THEN LET error_info == record.v[key]
         IN IF error_info.t = "map"
            THEN IF "error" \in DOMAIN error_info.v
                 THEN LET extracted_error == error_info.v["error"]
                      IN IF extracted_error.t = "list"
                         THEN extracted_error.v
                         ELSE <<extracted_error>>
                 ELSE <<>>
            ELSE <<error_info>>
    ELSE <<>>

\* a loop that puts the errors of each key before those already collected
RECURSIVE ExtractLoopPrepends(_, _, _, _)
ExtractLoopPrepends(record, error_keys, i, errors) ==
    IF i > Len(error_keys) THEN errors
    ELSE ExtractLoopPrepends(record, error_keys, i + 1,
                             ErrorsOfKey(record, error_keys[i]) \o errors)

RECURSIVE ExtractLoop(_, _, _, _)
ExtractLoop(record, error_keys, i, errors) ==
    IF i > Len(error_keys) THEN errors
    ELSE ExtractLoop(record, error_keys, i + 1,
                     errors \o ErrorsOfKey(record, error_keys[i]))

extract_errors(record, error_keys) == ExtractLoop(record, error_keys, 1, <<>>)

(***************************************************************************)
(* accumulate_errors_in_data: src/afip_service.py 427-447                  *)
(***************************************************************************)
ErrorValueAlwaysList(errors) == List(errors)

ErrorValue(errors) == IF Len(errors) = 1 THEN errors[1] ELSE List(errors)

\* an accumulator with an entry for every identifier
AccumulateEveryRecord(data, error_keys) ==
    Map([identifier \in DOMAIN data.v |->
            ErrorValue(extract_errors(data.v[identifier], error_keys))])

accumulate_errors_in_data(data, error_keys) ==
    Map([identifier \in
            {i \in DOMAIN data.v : extract_errors(data.v[i], error_keys) # <<>>}
            |-> ErrorValue(extract_errors(data.v[identifier], error_keys))])

(***************************************************************************)
(* filter_dictionary: src/utils.py 57                                   *)
(***************************************************************************)
\* a filter that removes nothing
FilterKeepsAll(dict_to_filter, keys_to_remove) == dict_to_filter

filter_dictionary(dict_to_filter, keys_to_remove) ==
    Map([k \in DOMAIN dict_to_filter.v \ DOMAIN keys_to_remove.v |->
            dict_to_filter.v[k]])

INSCRIPTION_ERROR_KEYS == <<"errorMonotributo", "errorConstancia", "errorRegimenGeneral">>

(***************************************************************************)
(* What the server can answer.  A response is a transport failure (the     *)
(* request raised) or an HTTP status with a body; the body is JSON (a      *)
(* value) or not JSON at all.                                              *)
(***************************************************************************)
TransportError == [exc |-> TRUE, status |-> 0, body |-> NonJSON]
Http(status, body) == [exc |-> FALSE, status |-> status, body |-> body]

TokenA == Scalar("tokA")
TokenB == Scalar("tokB")
Tokens == {TokenA, TokenB}

\* answers of POST {base}/token
TokenResponses ==
    {TransportError,
     Http(500, NonJSON),
     Http(200, NonJSON),
     Http(200, EmptyList),
     Http(200, EmptyMap),
     Http(200, Map([access_token |-> Scalar("")]))}
    \cup {Http(200, Map([access_token |-> tk])) : tk \in Tokens}

\* records the registry returns for one identifier
RecActive ==
    Map([estado |-> Scalar("ACTIVO"), domicilio |-> None, impuestos |-> EmptyList])
RecError ==
    Map([errorConstancia |-> Map([error |-> List(<<Scalar("e1"), Scalar("e2")>>)]),
         datosGenerales |-> None])
\* the registry's record of an identifier
RegistryRecord(id) == IF id % 2 = 1 THEN RecError ELSE RecActive

\* a fragment is what fetch_data_service hands to _request_with_retry: a list of
\* identifiers, or one bare identifier (islist = FALSE, ids = <<id>>)
Fragment(islist, ids) == [islist |-> islist, ids |-> ids]

\* the `data` list answering a fragment: one single-key mapping per identifier
EchoData(fragment) ==
    List([i \in 1..Len(fragment.ids) |->
             Map([k \in {fragment.ids[i]} |-> RegistryRecord(fragment.ids[i])])])

\* answers of POST {base}/{service}
ServiceResponses(fragment) ==
    {TransportError,
     Http(401, NonJSON),
     Http(500, NonJSON),
     Http(200, NonJSON),
     Http(200, EmptyList),
     Http(200, EmptyMap),
     Http(200, Map([data |-> None])),
     Http(200, Map([data |-> EmptyList])),
     Http(200, Map([data |-> Map([detail |-> Scalar("x")])])),
     Http(200, Map([data |-> EchoData(fragment)]))}

\* answers of GET {base}/{service}/health
HealthResponses ==
    {TransportError, Http(200, Scalar("ok")), Http(401, NonJSON), Http(503, NonJSON)}

\* requests' Response.ok: the status is below 400
ResponseOk(response) == response.status < 400

(***************************************************************************)
(* _get_token: src/afip_service.py 67-78, as a function of the answer to   *)
(* the token request.  Every exception (transport failure, non-JSON body,  *)
(* a body without .get) is caught and yields None.                         *)
(***************************************************************************)
_get_token(response) ==
    IF response.exc THEN None
    ELSE IF response.status = 200
    THEN IF response.body.t = "map"
         THEN Get(response.body, "access_token", None)
         ELSE None
    ELSE None

(***************************************************************************)
(* _refresh_token: src/afip_service.py 87-92.  ok is the returned bool,    *)
(* token the stored token afterwards.                                      *)
(***************************************************************************)
RefreshKeepsOld(token, response) ==
    [ok |-> Truthy(_get_token(response)), token |-> token]

RefreshNeverOk(token, response) == [ok |-> FALSE, token |-> token]

\* a refresh that stores whatever the token request gave
RefreshStoresAnything(token, response) ==
    [ok |-> Truthy(_get_token(response)), token |-> _get_token(response)]

_refresh_token(token, response) ==
    LET new_token == _get_token(response)
    IN IF Truthy(new_token)
       THEN [ok |-> TRUE, token |-> new_token]
       ELSE [ok |-> FALSE, token |-> token]

(***************************************************************************)
(* _check_instance: src/afip_service.py 104-110                            *)
(***************************************************************************)
services_available == {"inscription", "padron"}
ServiceNames == {"inscription", "sss"}

CheckIgnoresToken(service_name, token) == service_name \in services_available

_check_instance(service_name, token) ==
    IF service_name \notin services_available THEN FALSE
    ELSE IF ~Truthy(token) THEN FALSE
    ELSE TRUE

(***************************************************************************)
(* _query_service: src/afip_service.py 130-176, as the set of outcomes the *)
(* call can have over all server answers.  An outcome holds the returned   *)
(* value (None, a list, or the exception that propagates), the stored      *)
(* token afterwards, the requests sent in order with the server's answer   *)
(* to each, why the call ended and the status of the last service response *)
(* (0 when there is none).                                                 *)
(***************************************************************************)
Outcome(ret, token, net, answers, reason, status) ==
    [ret |-> ret, token |-> token, net |-> net, answers |-> answers,
     reason |-> reason, status |-> status]

\* a service POST: the token in its Authorization header and the token stored in
\* the client when it is sent
PostEvent(hdr, stored) == [e |-> "POST", hdr |-> hdr, stored |-> stored]
TokenEvent == [e |-> "TOKEN", hdr |-> None, stored |-> None]
GetEvent(hdr, stored) == [e |-> "GET", hdr |-> hdr, stored |-> stored]

\* line 152: the retried POST's header is rebuilt from the stored token
RetryHeaderStale(old_header, token) == old_header

RetryHeader(old_header, token) == token

\* iterating a mapping yields its keys; the encoding keeps no insertion order, so
\* the order is determinate only for the mappings of at most one key used here
RECURSIVE IterKeys(_)
IterKeys(f) ==
    IF DOMAIN f = {} THEN <<>>
    ELSE LET k == CHOOSE x \in DOMAIN f : TRUE
         IN <<Scalar(k)>> \o IterKeys([x \in DOMAIN f \ {k} |-> f[x]])

\* line 164: [clean_dict(item) for item in response_data]
CleanedNoClean(items) == List(items)

Cleaned(items) == List([i \in 1..Len(items) |-> clean_dict(items[i])])

\* lines 158-170: what is made of the last response.  response.json() on a body
\* that is not JSON raises requests' JSONDecodeError, a RequestException from
\* requests 2.27 on (caught, line 172) and a plain ValueError before (propagates).
\* A `data` that is None is not iterable: TypeError (the last branch).
HandleResponse(response, token, net, answers) ==
    IF ResponseOk(response)
    THEN IF response.body.t = "nonjson"
         THEN {Outcome(None, token, net, answers, "request_error", response.status),
               Outcome(Raise("ValueError"), token, net, answers, "raised",
                       response.status)}
         ELSE IF response.body.t # "map"
         THEN {Outcome(Raise("AttributeError"), token, net, answers, "raised",
                       response.status)}
         ELSE LET response_data == Get(response.body, "data", EmptyList)
              IN IF response_data.t = "list"
                 THEN {Outcome(Cleaned(response_data.v), token, net, answers, "ok",
                               response.status)}
                 ELSE IF response_data.t = "map"
                 THEN {Outcome(Cleaned(IterKeys(response_data.v)), token, net,
                               answers, "ok", response.status)}
                 ELSE {Outcome(Raise("TypeError"), token, net, answers, "raised",
                               response.status)}
    ELSE {Outcome(None, token, net, answers, "service_error", response.status)}

\* lines 143 and 153: session.post either raises a RequestException (caught,
\* line 172) or returns a response
AfterPost(response, token, net, answers) ==
    IF response.exc
    THEN {Outcome(None, token, net, answers, "request_error", 0)}
    ELSE HandleResponse(response, token, net, answers)

\* a handling of the 401 that sends the POST again whether or not the refresh
\* succeeded
AfterUnauthorizedRetriesAnyway(fragment, token, net, r1) ==
    UNION {LET refreshed == _refresh_token(token, tr)
               net3 == net \o <<TokenEvent, PostEvent(refreshed.token, refreshed.token)>>
           IN UNION {AfterPost(r2, refreshed.token, net3, <<r1, tr, r2>>)
                     : r2 \in ServiceResponses(fragment)}
           : tr \in TokenResponses}

\* lines 145-156: the first POST was answered 401
AfterUnauthorized(fragment, token, net, r1) ==
    UNION {LET refreshed == _refresh_token(token, tr)
               net2 == Append(net, TokenEvent)
           IN IF refreshed.ok
              THEN LET hdr == RetryHeader(token, refreshed.token)
                       net3 == Append(net2, PostEvent(hdr, refreshed.token))
                   IN UNION {AfterPost(r2, refreshed.token, net3, <<r1, tr, r2>>)
                             : r2 \in ServiceResponses(fragment)}
              ELSE {Outcome(None, refreshed.token, net2, <<r1, tr>>,
                            "refresh_failed", r1.status)}
           : tr \in TokenResponses}

_query_service(service_name, fragment, token) ==
    IF ~_check_instance(service_name, token)
    THEN {Outcome(None, token, <<>>, <<>>, "invalid_instance", 0)}
    ELSE LET net == <<PostEvent(token, token)>>
         IN UNION {IF ~r1.exc /\ r1.status = 401
                   THEN AfterUnauthorized(fragment, token, net, r1)
                   ELSE AfterPost(r1, token, net, <<r1>>)
                   : r1 \in ServiceResponses(fragment)}

(***************************************************************************)
(* _request_with_retry: src/afip_service.py 205-209, the backoff           *)
(***************************************************************************)
BackoffOffByOne(retry_delay, attempt) == retry_delay * (2 ^ attempt)

backoff_delay(retry_delay, attempt) == retry_delay * (2 ^ (attempt - 1))

\* line 205: a sleep follows a failed attempt only if another attempt comes
SleepsAfterLast(attempt, max_retries) == attempt <= max_retries

AttemptsRemain(attempt, max_retries) == attempt < max_retries

\* line 197: `if response:` returns the result of _query_service at once
AcceptsEmptyList(resp) == resp.t = "list"

ResponseAccepted(resp) == Truthy(resp)

\* a loop that runs one attempt more than range(1, max_retries + 1)
RangeOneMore(attempt, max_retries) == attempt > max_retries

\* line 195: range(1, max_retries + 1) has nothing after this attempt
RangeExhausted(attempt, max_retries) == attempt + 1 > max_retries

(***************************************************************************)
(* fetch_data_service: src/afip_service.py 243-247, the split into chunks. *)
(* A list longer than chunk_size becomes a list of lists; a shorter one    *)
(* is left as it is, so the loop of line 252 walks its identifiers.        *)
(***************************************************************************)
\* a split that keeps the full chunks only
ChunkedDropsRemainder(ids, chunk_size) ==
    [k \in 1..(Len(ids) \div chunk_size) |->
        Fragment(TRUE, SubSeq(ids, (k - 1) * chunk_size + 1, k * chunk_size))]

Chunked(ids, chunk_size) ==
    [k \in 1..((Len(ids) + chunk_size - 1) \div chunk_size) |->
        Fragment(TRUE, SubSeq(ids, (k - 1) * chunk_size + 1,
                              Min(k * chunk_size, Len(ids))))]

split_person_ids(ids, chunk_size) ==
    IF Len(ids) > chunk_size
    THEN Chunked(ids, chunk_size)
    ELSE [k \in 1..Len(ids) |-> Fragment(FALSE, <<ids[k]>>)]

(***************************************************************************)
(* State.                                                                  *)
(***************************************************************************)
VARIABLES
    \* the client's fields (src/afip_service.py 37-55)
    token, chunk_size, max_calls, pause_duration, max_retries, retry_delay,
    \* the call in progress: which operation, where it stands, its arguments
    pc, op, service_name, input_ids,
    \* locals of fetch_data_service and _request_with_retry
    person_ids, index, total_data, response, attempt,
    \* what the finished call returned (or the exception that left it)
    ret,
    \* the report pipeline (src/nit_errors_report.py 124-140)
    run, error_keys, fetched_data, data_with_error,
    \* history: the answer to the token request of construction, the token held
    \* when the call began, the fragments handed to _request_with_retry and what
    \* each returned, the queries and sleeps of the _request_with_retry in progress,
    \* the batch indexes at which the pause was taken, the outcome of the last
    \* _query_service, and whether the call has sent any request so far
    auth_response, token0, batches, batch_results, log, pauses, last, requested,
    \* the calls of _query_service, the service POSTs, the token requests and the
    \* backoff sleeps of the fetch so far, kept only when the count is switched on
    tally,
    \* a static method called on its own: its argument and what it returned
    arg, out

client == <<token, chunk_size, max_calls, pause_duration, max_retries, retry_delay>>
config == <<chunk_size, max_calls, pause_duration, max_retries, retry_delay>>
locals == <<person_ids, index, total_data, response, attempt>>
report == <<run, error_keys, fetched_data, data_with_error>>
history ==
    <<auth_response, token0, batches, batch_results, log, pauses, last, requested, tally>>
static == <<arg, out>>
vars == <<client, pc, op, service_name, input_ids, locals, ret, report, history, static>>

\* identifier lists handed to the client: 1..L for every length up to MaxLen
IdLists == {[i \in 1..L |-> i] : L \in 0..MaxLen}

RetryDelays == {3}
PauseDurations == {60}

\* a call of _query_service and how it ended ("ok": a non-empty list), a sleep
\* and its length in seconds
QueryEvent(o) ==
    [e |-> "query", d |-> 0,
     r |-> IF IsRaise(o.ret) THEN "raise" ELSE IF Truthy(o.ret) THEN "ok" ELSE "fail"]
SleepEvent(d) == [e |-> "sleep", d |-> d, r |-> "-"]

NoOutcome == Outcome(None, None, <<>>, <<>>, "none", 0)

\* the count of what a fetch costs: off, at zero, and after one more call of
\* _query_service with outcome o followed by `slept` backoff sleeps
TallyOff == [on |-> FALSE, queries |-> 0, posts |-> 0, tokens |-> 0, sleeps |-> 0]
TallyZero == [on |-> TRUE, queries |-> 0, posts |-> 0, tokens |-> 0, sleeps |-> 0]

Sent(net, kind) == Cardinality({i \in 1..Len(net) : net[i].e = kind})

Tallied(t, o, slept) ==
    IF ~t.on THEN t
    ELSE [on |-> TRUE,
          queries |-> t.queries + 1,
          posts |-> t.posts + Sent(o.net, "POST"),
          tokens |-> t.tokens + Sent(o.net, "TOKEN"),
          sleeps |-> t.sleeps + slept]

(***************************************************************************)
(* __init__: src/afip_service.py 37-55.  The state after construction: the *)
(* configuration is stored and the token is whatever _get_token made of    *)
(* the server's answer.                                                    *)
(***************************************************************************)
Init ==
    /\ auth_response \in TokenResponses
    /\ token = _get_token(auth_response)
    /\ chunk_size \in 1..MaxChunk
    /\ max_calls \in 0..MaxCalls
    /\ max_retries \in 1..MaxRetries
    /\ retry_delay \in RetryDelays
    /\ pause_duration \in PauseDurations
    /\ pc = "idle"
    /\ op = "none"
    /\ service_name = "none"
    /\ input_ids = <<>>
    /\ person_ids = <<>>
    /\ index = 0
    /\ total_data = <<>>
    /\ response = None
    /\ attempt = 0
    /\ ret = None
    /\ run = "running"
    /\ error_keys = INSCRIPTION_ERROR_KEYS
    /\ fetched_data = None
    /\ data_with_error = None
    /\ token0 = token
    /\ batches = <<>>
    /\ batch_results = <<>>
    /\ log = <<>>
    /\ pauses = <<>>
    /\ last = NoOutcome
    /\ requested = TRUE
    /\ tally = TallyOff
    /\ arg = None
    /\ out = None

(***************************************************************************)
(* fetch_data_service, entry: src/afip_service.py 237-250                  *)
(***************************************************************************)
fetch_data_service(sn, ids) ==
    /\ pc = "idle"
    /\ op' = "fetch_data_service"
    /\ service_name' = sn
    /\ input_ids' = ids
    /\ token0' = token
    /\ requested' = FALSE
    /\ IF ~_check_instance(sn, token)
       THEN /\ ret' = None
            /\ pc' = "returned"
            /\ UNCHANGED person_ids
       ELSE /\ person_ids' = split_person_ids(ids, chunk_size)
            /\ pc' = "fetch_loop"
            /\ UNCHANGED ret
    /\ UNCHANGED <<client, index, total_data, response, attempt, report, static,
                   tally, auth_response, batches, batch_results, log, pauses, last>>

(***************************************************************************)
(* fetch_data_service, head of the loop and return: lines 252-263, 274     *)
(***************************************************************************)
PauseEvery(i, calls) == calls > 0 /\ i > 0 /\ i % calls = 0

PauseNow(i, calls) == i = calls

fetch_loop ==
    /\ pc = "fetch_loop"
    /\ IF index < Len(person_ids)
       THEN /\ pauses' = IF PauseNow(index, max_calls)
                         THEN Append(pauses, index) ELSE pauses
            /\ batches' = Append(batches, person_ids[index + 1])
            /\ attempt' = 1
            /\ log' = <<>>
            /\ pc' = "retry"
            /\ UNCHANGED ret
       ELSE /\ ret' = format_response(total_data)
            /\ pc' = "returned"
            /\ UNCHANGED <<pauses, batches, attempt, log>>
    /\ UNCHANGED <<client, op, service_name, input_ids, person_ids, index,
                   total_data, response, report, static, tally, auth_response, token0,
                   batch_results, last, requested>>

(***************************************************************************)
(* _request_with_retry, one turn of its loop: lines 195-215.  The call of  *)
(* _query_service, then return, sleep and go round, or give up.  An        *)
(* exception of _query_service leaves _request_with_retry and              *)
(* fetch_data_service, neither catches it.                                 *)
(***************************************************************************)
\* a client that keeps sending the token it held when the fetch began
TokenOfCallStart == token0

\* line 137: the header is built from self.token at each call of _query_service
StoredToken == token

request_attempt ==
    /\ pc = "retry"
    /\ \E o \in _query_service(service_name, person_ids[index + 1], StoredToken) :
        /\ token' = o.token
        /\ last' = o
        /\ requested' = (requested \/ o.net # <<>>)
        /\ IF IsRaise(o.ret)
           THEN /\ ret' = o.ret
                /\ pc' = "returned"
                /\ log' = Append(log, QueryEvent(o))
                /\ UNCHANGED <<response, attempt>>
           ELSE IF ResponseAccepted(o.ret)
           THEN /\ response' = o.ret
                /\ pc' = "collect"
                /\ log' = Append(log, QueryEvent(o))
                /\ UNCHANGED <<ret, attempt>>
           ELSE /\ log' = IF AttemptsRemain(attempt, max_retries)
                          THEN log \o <<QueryEvent(o),
                                        SleepEvent(backoff_delay(retry_delay, attempt))>>
                          ELSE Append(log, QueryEvent(o))
                /\ IF RangeExhausted(attempt, max_retries)
                   THEN /\ response' = None
                        /\ pc' = "collect"
                        /\ UNCHANGED attempt
                   ELSE /\ attempt' = attempt + 1
                        /\ pc' = "retry"
                        /\ UNCHANGED response
                /\ UNCHANGED ret
    /\ tally' = Tallied(tally, last', Len(log') - Len(log) - 1)
    /\ UNCHANGED <<config, op, service_name, input_ids, person_ids, index,
                   total_data, report, static, auth_response, token0, batches,
                   batch_results, pauses>>

(***************************************************************************)
(* fetch_data_service, after _request_with_retry: lines 264-272            *)
(***************************************************************************)
ExtendDropsOnFailure(total, resp) == IF Truthy(resp) THEN total \o resp.v ELSE <<>>

extend_total(total, resp) == IF Truthy(resp) THEN total \o resp.v ELSE total

fetch_collect ==
    /\ pc = "collect"
    /\ total_data' = extend_total(total_data, response)
    /\ batch_results' = Append(batch_results, response)
    /\ index' = index + 1
    /\ log' = <<>>
    /\ last' = NoOutcome
    /\ pc' = "fetch_loop"
    /\ UNCHANGED <<client, op, service_name, input_ids, person_ids, response,
                   attempt, ret, report, static, tally, auth_response, token0, batches,
                   pauses, requested>>

(***************************************************************************)
(* A caller invoking _query_service on its own: lines 130-176              *)
(***************************************************************************)
DirectFragments == {Fragment(TRUE, ids) : ids \in IdLists \ {<<>>}}

call_query_service(sn, fragment) ==
    /\ pc = "idle"
    /\ op' = "_query_service"
    /\ service_name' = sn
    /\ input_ids' = fragment.ids
    /\ token0' = token
    /\ \E o \in _query_service(sn, fragment, token) :
        /\ token' = o.token
        /\ last' = o
        /\ ret' = o.ret
        /\ requested' = (o.net # <<>>)
    /\ pc' = "returned"
    /\ UNCHANGED <<config, locals, report, static, tally, auth_response, batches, batch_results,
                   log, pauses>>

(***************************************************************************)
(* check_health: src/afip_service.py 286-298                               *)
(***************************************************************************)
\* a result that hands back the status and body of an ok response only
StatusAndTextIfOk(resp) ==
    IF ResponseOk(resp) THEN [t |-> "tuple", v |-> <<resp.status, resp.body>>] ELSE None

StatusAndText(resp) == [t |-> "tuple", v |-> <<resp.status, resp.body>>]

check_health(sn) ==
    /\ pc = "idle"
    /\ op' = "check_health"
    /\ service_name' = sn
    /\ token0' = token
    /\ IF ~_check_instance(sn, token)
       THEN /\ ret' = None
            /\ requested' = FALSE
            /\ UNCHANGED last
       ELSE \E resp \in HealthResponses :
            /\ last' = Outcome(None, token, <<GetEvent(token, token)>>, <<resp>>,
                               "health", resp.status)
            /\ requested' = TRUE
            /\ ret' = IF resp.exc THEN None ELSE StatusAndText(resp)
    /\ pc' = "returned"
    /\ UNCHANGED <<client, input_ids, locals, report, static, tally, auth_response, batches,
                   batch_results, log, pauses>>

(***************************************************************************)
(* A caller invoking _refresh_token on its own: lines 87-92                *)
(***************************************************************************)
call_refresh_token ==
    /\ pc = "idle"
    /\ op' = "_refresh_token"
    /\ token0' = token
    /\ \E tr \in TokenResponses :
        LET refreshed == _refresh_token(token, tr)
        IN /\ token' = refreshed.token
           /\ ret' = Scalar(IF refreshed.ok THEN "True" ELSE "False")
           /\ last' = Outcome(_get_token(tr), refreshed.token, <<TokenEvent>>,
                              <<tr>>, "refresh", tr.status)
    /\ requested' = TRUE
    /\ pc' = "returned"
    /\ UNCHANGED <<config, service_name, input_ids, locals, report, static, tally, auth_response,
                   batches, batch_results, log, pauses>>

(***************************************************************************)
(* main, after its call of fetch_data_service("inscription", nit_list):    *)
(* src/nit_errors_report.py 125-140.  len(fetched_data) raises TypeError   *)
(* when the fetch returned None, and nothing in main catches it or an      *)
(* exception that left the fetch.                                          *)
(***************************************************************************)
main_report ==
    /\ pc = "returned"
    /\ op = "fetch_data_service"
    /\ service_name = "inscription"
    /\ IF IsRaise(ret) \/ ret = None
       THEN /\ run' = "aborted"
            /\ UNCHANGED <<fetched_data, data_with_error>>
       ELSE /\ data_with_error' = accumulate_errors_in_data(ret, error_keys)
            /\ fetched_data' =
                 filter_dictionary(ret, accumulate_errors_in_data(ret, error_keys))
            /\ run' = "completed"
    /\ UNCHANGED error_keys
    /\ pc' = "reported"
    /\ UNCHANGED <<client, op, service_name, input_ids, locals, ret, history, static>>

Next ==
    \/ \E sn \in ServiceNames, ids \in IdLists : fetch_data_service(sn, ids)
    \/ fetch_loop
    \/ request_attempt
    \/ fetch_collect
    \/ \E sn \in ServiceNames, fragment \in DirectFragments : call_query_service(sn, fragment)
    \/ \E sn \in ServiceNames : check_health(sn)
    \/ call_refresh_token
    \/ main_report

Spec == Init /\ [][Next]_vars

(***************************************************************************)
(* The error report on its own: accumulate_errors_in_data applied to       *)
(* aggregated results of every shape of record (src/afip_service.py        *)
(* 427-447), as main does after its fetch (src/nit_errors_report.py 128).  *)
(***************************************************************************)
E1 == Scalar("e1")
E2 == Scalar("e2")

\* what a record can hold under an error-bearing key
ErrorInfos ==
    {Map([error |-> Scalar("bad id")]),
     Map([error |-> List(<<E1, E2>>)]),
     Map([error |-> List(<<E1>>)]),
     Map([error |-> EmptyList]),
     Map([error |-> Map([code |-> Scalar("c")])]),
     Map([detail |-> Scalar("d")]),
     Scalar("raw"),
     List(<<Scalar("e3")>>)}

RecordWith(keys, x, y) ==
    Map([k \in keys |-> IF k = "errorX" THEN x
                        ELSE IF k = "errorY" THEN y
                        ELSE Scalar("true")])

CoreRecords ==
    {RecordWith({"errorX"}, x, None) : x \in ErrorInfos} \cup {RecordWith({"ok"}, None, None)}

Records ==
    {RecordWith(keys, x, y) :
        keys \in SUBSET {"errorX", "errorY", "ok"},
        x \in ErrorInfos,
        y \in {Map([error |-> Scalar("y1")]), Scalar("rawY")}}

ExampleResult ==
    Map([id \in {"A", "B", "C"} |->
            IF id = "A" THEN Map([errorX |-> Map([error |-> Scalar("bad id")])])
            ELSE IF id = "B" THEN Map([errorX |-> Map([error |-> List(<<E1, E2>>)])])
            ELSE Map([ok |-> Scalar("true")])])

AggregatedResults ==
    {EmptyMap, ExampleResult}
    \cup {Map([id \in {"A"} |-> r]) : r \in Records}
    \cup {Map([id \in {"A", "B"} |-> IF id = "A" THEN r1 ELSE r2]) :
            r1 \in CoreRecords, r2 \in CoreRecords}

ErrorKeyLists ==
    {<<>>, <<"errorX">>, <<"errorX", "errorY">>, <<"errorY", "errorX">>, <<"errorZ">>}

InitErrors ==
    /\ fetched_data \in AggregatedResults
    /\ error_keys \in ErrorKeyLists
    /\ data_with_error = None
    /\ pc = "fetched"
    /\ op = "accumulate_errors_in_data"
    /\ run = "running"
    /\ auth_response = TransportError
    /\ token = None
    /\ chunk_size = 1
    /\ max_calls = 0
    /\ max_retries = 1
    /\ retry_delay \in RetryDelays
    /\ pause_duration \in PauseDurations
    /\ service_name = "none"
    /\ input_ids = <<>>
    /\ person_ids = <<>>
    /\ index = 0
    /\ total_data = <<>>
    /\ response = None
    /\ attempt = 0
    /\ ret = None
    /\ token0 = None
    /\ batches = <<>>
    /\ batch_results = <<>>
    /\ log = <<>>
    /\ pauses = <<>>
    /\ last = NoOutcome
    /\ requested = FALSE
    /\ tally = TallyOff
    /\ arg = None
    /\ out = None

accumulate_errors ==
    /\ pc = "fetched"
    /\ data_with_error' = accumulate_errors_in_data(fetched_data, error_keys)
    /\ pc' = "accumulated"
    /\ UNCHANGED <<client, op, service_name, input_ids, locals, ret, run, error_keys,
                   fetched_data, history, static>>

NextErrors == accumulate_errors

SpecErrors == InitErrors /\ [][NextErrors]_vars

(***************************************************************************)
(* The static methods on their own: clean_dict (src/afip_service.py        *)
(* 320-329) on nested structures, extract_errors (375-407) on records, and *)
(* the merge that ends fetch_data_service (249, 264-266, 274) on the       *)
(* responses of its batches.                                               *)
(***************************************************************************)
Leaves == {None, EmptyList, EmptyMap, Scalar("s"), Scalar("")}

\* the mappings with keys among `keys` and values in `vals`
MapsOver(keys, vals) == {Map(f) : f \in UNION {[ks -> vals] : ks \in SUBSET keys}}

\* the lists of at most two elements of `vals`
ListsOver(vals) ==
    {EmptyList} \cup {List(<<x>>) : x \in vals}
                \cup {List(<<x, y>>) : x \in vals, y \in vals}

Level1 == Leaves \cup MapsOver({"a", "b"}, Leaves) \cup ListsOver(Leaves)
Level2 == Level1 \cup MapsOver({"a", "b"}, Level1) \cup ListsOver(Level1)
Nested ==
    Level2 \cup {Map([k \in {"a"} |-> x]) : x \in Level2} \cup {List(<<x>>) : x \in Level2}

\* records as the cleaning leaves them, and the single-key items of a response
R1 == Map([estado |-> Scalar("ACTIVO")])
R2 == Map([estado |-> Scalar("BAJA")])
Items == {Map([k \in {id} |-> r]) : id \in {"A", "B"}, r \in {R1, R2}}

\* what _request_with_retry hands back for one batch: None or a non-empty list
BatchResponses ==
    {None} \cup {List(<<x>>) : x \in Items} \cup {List(<<x, y>>) : x \in Items, y \in Items}

BatchResultLists ==
    {<<>>} \cup {<<r>> : r \in BatchResponses}
           \cup {<<r, s>> : r \in BatchResponses, s \in BatchResponses}

\* lines 249 and 264-266 over all the batches: total_data after the loop
RECURSIVE ExtendAll(_, _)
ExtendAll(total, responses) ==
    IF responses = <<>> THEN total
    ELSE ExtendAll(extend_total(total, Head(responses)), Tail(responses))

InitStatic ==
    /\ \/ /\ op = "clean_dict"
          /\ arg \in Nested
          /\ error_keys = <<>>
          /\ batch_results = <<>>
       \/ /\ op = "extract_errors"
          /\ arg \in Records
          /\ error_keys \in ErrorKeyLists
          /\ batch_results = <<>>
       \/ /\ op = "format_response"
          /\ arg = None
          /\ error_keys = <<>>
          /\ batch_results \in BatchResultLists
    /\ out = None
    /\ pc = "call"
    /\ fetched_data = None
    /\ data_with_error = None
    /\ run = "running"
    /\ auth_response = TransportError
    /\ token = None
    /\ chunk_size = 1
    /\ max_calls = 0
    /\ max_retries = 1
    /\ retry_delay \in RetryDelays
    /\ pause_duration \in PauseDurations
    /\ service_name = "none"
    /\ input_ids = <<>>
    /\ person_ids = <<>>
    /\ index = 0
    /\ total_data = <<>>
    /\ response = None
    /\ attempt = 0
    /\ ret = None
    /\ token0 = None
    /\ batches = <<>>
    /\ log = <<>>
    /\ pauses = <<>>
    /\ last = NoOutcome
    /\ requested = FALSE
    /\ tally = TallyOff

call_clean_dict ==
    /\ pc = "call"
    /\ op = "clean_dict"
    /\ out' = clean_dict(arg)
    /\ pc' = "return"
    /\ UNCHANGED <<client, op, service_name, input_ids, locals, ret, report, history, arg>>

call_extract_errors ==
    /\ pc = "call"
    /\ op = "extract_errors"
    /\ out' = List(extract_errors(arg, error_keys))
    /\ pc' = "return"
    /\ UNCHANGED <<client, op, service_name, input_ids, locals, ret, report, history, arg>>

call_format_response ==
    /\ pc = "call"
    /\ op = "format_response"
    /\ total_data' = ExtendAll(<<>>, batch_results)
    /\ out' = format_response(ExtendAll(<<>>, batch_results))
    /\ pc' = "return"
    /\ UNCHANGED <<client, op, service_name, input_ids, person_ids, index, response,
                   attempt, ret, report, history, arg>>

NextStatic ==
    \/ call_clean_dict
    \/ call_extract_errors
    \/ call_format_response

SpecStatic == InitStatic /\ [][NextStatic]_vars

(***************************************************************************)
(* One client over its lifetime: a caller that, back from                  *)
(* fetch_data_service, _query_service or check_health, calls the same      *)
(* instance again.  Only self.token (src/afip_service.py 55, 90) lives     *)
(* from one call to the next; the locals of the finished call are gone.    *)
(***************************************************************************)
next_call ==
    /\ pc = "returned"
    /\ op \in {"fetch_data_service", "_query_service", "check_health"}
    /\ pc' = "idle"
    /\ op' = "none"
    /\ service_name' = "none"
    /\ input_ids' = <<>>
    /\ person_ids' = <<>>
    /\ index' = 0
    /\ total_data' = <<>>
    /\ response' = None
    /\ attempt' = 0
    /\ ret' = None
    /\ token0' = token
    /\ batches' = <<>>
    /\ batch_results' = <<>>
    /\ log' = <<>>
    /\ pauses' = <<>>
    /\ last' = NoOutcome
    /\ requested' = TRUE
    /\ UNCHANGED <<client, report, static, tally, auth_response>>

\* the clients of chunk size 1 whose pause falls before the first batch
InitCalls == Init /\ chunk_size = 1 /\ max_calls = 0

NextCalls ==
    \/ \E sn \in ServiceNames, ids \in IdLists : fetch_data_service(sn, ids)
    \/ fetch_loop
    \/ request_attempt
    \/ fetch_collect
    \/ \E sn \in ServiceNames, fragment \in DirectFragments : call_query_service(sn, fragment)
    \/ \E sn \in ServiceNames : check_health(sn)
    \/ next_call

SpecCalls == InitCalls /\ [][NextCalls]_vars

(***************************************************************************)
(* One fetch_data_service with its cost counted: a client holding a token, *)
(* chunk size 1, the run of src/afip_service.py 237-274 from call to       *)
(* return.                                                                 *)
(***************************************************************************)
CountIdLists(retries) == {[i \in 1..L |-> i] : L \in 0..(CountSize - retries)}

InitCount ==
    /\ auth_response = Http(200, Map([access_token |-> TokenA]))
    /\ token = _get_token(auth_response)
    /\ chunk_size = 1
    /\ max_calls = 0
    /\ max_retries \in 1..CountSize
    /\ retry_delay \in RetryDelays
    /\ pause_duration \in PauseDurations
    /\ pc = "idle"
    /\ op = "none"
    /\ service_name = "none"
    /\ input_ids = <<>>
    /\ person_ids = <<>>
    /\ index = 0
    /\ total_data = <<>>
    /\ response = None
    /\ attempt = 0
    /\ ret = None
    /\ run = "running"
    /\ error_keys = INSCRIPTION_ERROR_KEYS
    /\ fetched_data = None
    /\ data_with_error = None
    /\ token0 = token
    /\ batches = <<>>
    /\ batch_results = <<>>
    /\ log = <<>>
    /\ pauses = <<>>
    /\ last = NoOutcome
    /\ requested = TRUE
    /\ tally = TallyZero
    /\ arg = None
    /\ out = None

NextCount ==
    \/ \E sn \in ServiceNames, ids \in CountIdLists(max_retries) : fetch_data_service(sn, ids)
    \/ fetch_loop
    \/ request_attempt
    \/ fetch_collect

SpecCount == InitCount /\ [][NextCount]_vars

(***************************************************************************)
(* Vocabulary of the properties.                                           *)
(***************************************************************************)
Ceil(a, b) == (a + b - 1) \div b

\* a token is held: the field is a non-empty string
Held(tok) == tok.t = "scalar" /\ tok.v # ""

ValidateService(sn, tok) == sn \in services_available /\ Held(tok)

RECURSIVE FlattenIds(_)
FlattenIds(frags) ==
    IF frags = <<>> THEN <<>> ELSE Head(frags).ids \o FlattenIds(Tail(frags))

Queries(l) == Cardinality({i \in 1..Len(l) : l[i].e = "query"})
Sleeps(l) == Cardinality({i \in 1..Len(l) : l[i].e = "sleep"})

\* a fetch that passed the instance check and came back with a value
FetchReturned ==
    /\ pc = "returned"
    /\ op = "fetch_data_service"
    /\ _check_instance(service_name, token0)
    /\ ~IsRaise(ret)

\* the record the cleaning leaves of the registry's record of an identifier
CleanRecordOf(id) ==
    IF id % 2 = 1
    THEN Map([errorConstancia |-> Map([error |-> List(<<Scalar("e1"), Scalar("e2")>>)])])
    ELSE Map([estado |-> Scalar("ACTIVO")])

\* the last _query_service got 401, refreshed the token and sent the POST again
RetriedAfterRefresh ==
    /\ Len(last.net) = 3
    /\ last.net[1].e = "POST"
    /\ last.answers[1].status = 401
    /\ last.net[2].e = "TOKEN"
    /\ Truthy(_get_token(last.answers[2]))
    /\ last.net[3].e = "POST"

\* a response with an ok status whose body is a mapping with a list of records
WellFormedOk(resp) ==
    /\ ~resp.exc
    /\ ResponseOk(resp)
    /\ resp.body.t = "map"
    /\ "data" \in DOMAIN resp.body.v
    /\ resp.body.v["data"].t = "list"

\* the last call ended in None with a 401 as the last status it saw
UnauthorizedFailure == last.ret = None /\ last.status = 401

\* how many steps a fetch can still take: max_retries + 2 for each batch not yet
\* begun (the head of the loop, the attempts, the collection) and one for the
\* return, counted down through the batch in progress
Rank ==
    CASE pc = "idle" -> (CountSize - max_retries) * (max_retries + 2) + 2
      [] pc = "fetch_loop" -> (Len(person_ids) - index) * (max_retries + 2) + 1
      [] pc = "retry" ->
            (Len(person_ids) - index - 1) * (max_retries + 2) + 3 + max_retries - attempt
      [] pc = "collect" -> (Len(person_ids) - index - 1) * (max_retries + 2) + 2
      [] OTHER -> 0

\* the token the constructor stored
ConstructionToken == _get_token(auth_response)

\* the token request of construction got a non-200 answer or failed in transport
AuthenticationFailed == auth_response.exc \/ auth_response.status # 200

\* what one error-bearing key adds to the errors of a record: the "error" entry
\* of a mapping (its elements when it is a list), nothing for a mapping without
\* one, the value itself when it is not a mapping
ContributionOf(rec, key) ==
    IF key \notin DOMAIN rec.v THEN <<>>
    ELSE LET held == rec.v[key]
         IN CASE held.t = "map" /\ "error" \notin DOMAIN held.v -> <<>>
              [] held.t = "map" /\ "error" \in DOMAIN held.v ->
                    IF held.v["error"].t = "list"
                    THEN held.v["error"].v
                    ELSE <<held.v["error"]>>
              [] OTHER -> <<held>>

\* the contributions of the keys, in the order of the keys
RECURSIVE OrderedErrors(_, _)
OrderedErrors(rec, keys) ==
    IF keys = <<>> THEN <<>>
    ELSE ContributionOf(rec, Head(keys)) \o OrderedErrors(rec, Tail(keys))

(***************************************************************************)
(* C1: for an identifier list of length L and chunk size C >= 1,           *)
(* fetch_data_service hands exactly ceil(L/C) batches to                   *)
(* _request_with_retry (one batch, the whole list, when L <= C), each an   *)
(* ordered list of at most C identifiers, and the batches in order         *)
(* concatenate to the input.                                               *)
(***************************************************************************)
C1_BatchesPartitionInput ==
    FetchReturned =>
        LET L == Len(input_ids)
            C == chunk_size
        IN /\ \/ Len(batches) = Ceil(L, C)
              \/ L <= C /\ Len(batches) = 1
           /\ \A b \in 1..Len(batches) :
                 batches[b].islist /\ Len(batches[b].ids) <= C
           /\ L <= C /\ L > 0 => batches = <<Fragment(TRUE, input_ids)>>
           /\ FlattenIds(batches) = input_ids

(***************************************************************************)
(* C2: a batch whose _request_with_retry fails does not abort the fetch:   *)
(* every batch is still handed to _request_with_retry, an exception that   *)
(* leaves the fetch is never on account of a failed batch, and the         *)
(* returned mapping is exactly the merge of the records of the batches     *)
(* that succeeded.                                                         *)
(***************************************************************************)
C2_FailedBatchSkipped ==
    /\ FetchReturned =>
          /\ batches = person_ids
          /\ Len(batch_results) = Len(person_ids)
          /\ ret.t = "map"
          /\ LET items == {<<i, j>> \in (1..Len(batch_results)) \X (1..Len(input_ids)) :
                              /\ Truthy(batch_results[i])
                              /\ j <= Len(batch_results[i].v)}
             IN /\ \A p \in items : batch_results[p[1]].v[p[2]].t = "map"
                /\ \A k \in DOMAIN ret.v : \E p \in items :
                      LET item == batch_results[p[1]].v[p[2]]
                      IN k \in DOMAIN item.v /\ item.v[k] = ret.v[k]
                /\ \A p \in items :
                      DOMAIN batch_results[p[1]].v[p[2]].v \subseteq DOMAIN ret.v
    /\ pc = "returned" /\ op = "fetch_data_service" /\ IsRaise(ret) =>
          \/ last.reason = "raised"
          \/ \E i \in 1..Len(batch_results) :
                /\ Truthy(batch_results[i])
                /\ \E j \in 1..Len(batch_results[i].v) : batch_results[i].v[j].t # "map"

C2_Witness ==
    /\ FetchReturned
    /\ \E i, j \in 1..Len(batch_results) :
          i < j /\ batch_results[i] = None /\ Truthy(batch_results[j])
    /\ DOMAIN ret.v # {}

C4_ExhaustedRetries ==
    (pc = "collect" /\ \A i \in 1..Len(log) : log[i].r # "ok") =>
        /\ response = None
        /\ Queries(log) = max_retries
        /\ Sleeps(log) = max_retries - 1
        /\ log[Len(log)].e = "query"
        /\ \A i \in 1..(Len(log) - 1) : log[i].e # log[i + 1].e

C4_Witness ==
    /\ pc = "collect"
    /\ response = None
    /\ max_retries >= 2
    /\ Queries(log) = max_retries
    /\ \A i \in 1..Len(log) : log[i].r # "ok"

(***************************************************************************)
(* C5: when the first POST of _query_service is answered 401, the refresh  *)
(* succeeds and the retried POST is answered ok with a list of records,    *)
(* the call returns the cleaned data of the retried response, the retried  *)
(* POST carries the refreshed token and the stored token is the refreshed  *)
(* token afterwards.                                                       *)
(***************************************************************************)
C5_RefreshAndRetry ==
    (RetriedAfterRefresh /\ WellFormedOk(last.answers[3])) =>
        LET refreshed == last.answers[2].body.v["access_token"]
            data == last.answers[3].body.v["data"].v
        IN /\ last.ret.t = "list"
           /\ Len(last.ret.v) = Len(data)
           /\ \A i \in 1..Len(data) :
                 \A id \in DOMAIN data[i].v :
                    /\ id \in DOMAIN last.ret.v[i].v
                    /\ last.ret.v[i].v[id] = CleanRecordOf(id)
           /\ last.net[3].hdr = refreshed
           /\ last.net[3].stored = refreshed
           /\ token = refreshed

C5_Witness ==
    /\ pc = "returned"
    /\ op = "_query_service"
    /\ RetriedAfterRefresh
    /\ WellFormedOk(last.answers[3])
    /\ Truthy(ret)
    /\ token # token0

(***************************************************************************)
(* C6 as stated: whenever the first POST is answered 401 and the refresh   *)
(* succeeds, _query_service does not report a failure on account of an     *)
(* unauthorized status.                                                    *)
(***************************************************************************)
C6_RefreshAlwaysRecovers ==
    RetriedAfterRefresh => ~UnauthorizedFailure

(***************************************************************************)
(* C6 amended: a 401 on the first POST is followed by one refresh and one  *)
(* retry, and _query_service reports a failure on account of an            *)
(* unauthorized status only if the refresh failed or the retried POST was  *)
(* answered 401 as well.                                                   *)
(***************************************************************************)
C6_UnauthorizedEscalation ==
    (last.reason \in {"refresh_failed", "service_error"} /\ UnauthorizedFailure) =>
        /\ last.answers[1].status = 401
        /\ \/ /\ Len(last.net) = 2
              /\ ~Truthy(_get_token(last.answers[2]))
           \/ /\ RetriedAfterRefresh
              /\ last.answers[3].status = 401

C6_Witness ==
    /\ RetriedAfterRefresh
    /\ UnauthorizedFailure
    /\ last.answers[3].status = 401

(***************************************************************************)
(* C7: no client operation lets an exception propagate to its caller,      *)
(* whatever the server answers.                                            *)
(***************************************************************************)
C7_NoExceptionPropagates == ~IsRaise(ret)

(***************************************************************************)
(* C8: an authentication failure at construction (a non-200 answer or a    *)
(* transport failure on the token request) is not fatal: the token is left *)
(* unset, the first service operation returns None, and the run is not     *)
(* aborted.                                                                *)
(***************************************************************************)
C8_AuthFailureNotFatal ==
    (AuthenticationFailed /\ op # "_refresh_token") =>
        /\ token = None
        /\ pc \in {"returned", "reported"} => ret = None
        /\ run # "aborted"

(***************************************************************************)
(* C9: _check_instance holds iff the service name is a recognized service  *)
(* and a token is held, and when it does not hold _query_service,          *)
(* fetch_data_service and check_health return None without sending any     *)
(* request.                                                                *)
(***************************************************************************)
C9_ValidateServiceGuards ==
    /\ \A sn \in ServiceNames \cup services_available :
          _check_instance(sn, token) <=> ValidateService(sn, token)
    /\ ( /\ pc = "returned"
         /\ op \in {"_query_service", "fetch_data_service", "check_health"}
         /\ ~ValidateService(service_name, token0) ) =>
            /\ ret = None
            /\ ~requested
            /\ last.net = <<>> \/ op = "fetch_data_service"
            /\ batches = <<>>
            /\ token = token0

C9_Witness ==
    /\ pc = "returned"
    /\ op = "_query_service"
    /\ service_name \in services_available
    /\ ~Held(token0)
    /\ ret = None
    /\ ~requested

(***************************************************************************)
(* C10: for every identifier of the aggregated result, with E the errors   *)
(* extract_errors finds in its record: the identifier is absent from the   *)
(* accumulator when E is empty, the accumulator stores the value itself    *)
(* when E has exactly one value, and the whole ordered list E when E has   *)
(* more than one.  {A: {errorX: {error: "bad id"}}, B: {errorX: {error:    *)
(* [e1, e2]}}, C: {ok: true}} with [errorX] gives {A: "bad id",            *)
(* B: [e1, e2]}.                                                           *)
(***************************************************************************)
C10_AccumulateErrors ==
    pc = "accumulated" =>
        /\ data_with_error.t = "map"
        /\ DOMAIN data_with_error.v \subseteq DOMAIN fetched_data.v
        /\ \A id \in DOMAIN fetched_data.v :
              LET E == extract_errors(fetched_data.v[id], error_keys)
              IN /\ E = <<>> => id \notin DOMAIN data_with_error.v
                 /\ Len(E) >= 1 => id \in DOMAIN data_with_error.v
                 /\ Len(E) = 1 => data_with_error.v[id] = E[1]
                 /\ Len(E) > 1 => data_with_error.v[id] = List(E)
        /\ (fetched_data = ExampleResult /\ error_keys = <<"errorX">>) =>
              data_with_error =
                 Map([id \in {"A", "B"} |->
                         IF id = "A" THEN Scalar("bad id") ELSE List(<<E1, E2>>)])

C10_Witness ==
    /\ pc = "accumulated"
    /\ fetched_data = ExampleResult
    /\ error_keys = <<"errorX">>
    /\ DOMAIN data_with_error.v = {"A", "B"}
    /\ data_with_error.v["A"] = Scalar("bad id")

(***************************************************************************)
(* C11: clean_dict is idempotent: for every nested structure x of          *)
(* mappings, lists and scalars, with None and empty lists at any depth,    *)
(* inside mappings or inside lists, clean_dict(clean_dict(x)) =            *)
(* clean_dict(x).                                                          *)
(***************************************************************************)
C11_CleanIdempotent ==
    (op = "clean_dict" /\ pc = "return") => clean_dict(out) = out

C11_Witness ==
    /\ op = "clean_dict"
    /\ pc = "return"
    /\ arg = Map([k \in {"a"} |-> List(<<Map([j \in {"a"} |-> None]), EmptyList>>)])
    /\ out = Map([k \in {"a"} |-> List(<<EmptyMap, EmptyList>>)])

(***************************************************************************)
(* C12: for every mapping m, the keys of clean_dict(m) are exactly the     *)
(* keys of m whose immediate value is neither None nor an empty list: a    *)
(* key with a non-empty scalar or a non-empty container is never removed,  *)
(* and a key whose value becomes empty once its children are cleaned is    *)
(* still kept.                                                             *)
(***************************************************************************)
C12_CleanKeySet ==
    (op = "clean_dict" /\ pc = "return" /\ arg.t = "map") =>
        /\ out.t = "map"
        /\ DOMAIN out.v = {k \in DOMAIN arg.v : arg.v[k] # None /\ arg.v[k] # EmptyList}
        /\ \A k \in DOMAIN arg.v :
              /\ (arg.v[k].t = "scalar" /\ arg.v[k].v # "") => k \in DOMAIN out.v
              /\ (arg.v[k].t = "list" /\ arg.v[k].v # <<>>) => k \in DOMAIN out.v
              /\ (arg.v[k].t = "map" /\ DOMAIN arg.v[k].v # {}) => k \in DOMAIN out.v
              /\ (k \in DOMAIN out.v /\ arg.v[k].t = "scalar") => out.v[k] = arg.v[k]

C12_Witness ==
    /\ op = "clean_dict"
    /\ pc = "return"
    /\ arg = Map([k \in {"a"} |-> Map([j \in {"a", "b"} |->
                                          IF j = "a" THEN None ELSE EmptyList])])
    /\ out = Map([k \in {"a"} |-> EmptyMap])

(***************************************************************************)
(* C13: the mapping fetch_data_service returns has at most one entry per   *)
(* identifier, and when the identifiers are distinct, every batch succeeds *)
(* and the service returns one single-key record per requested identifier, *)
(* it has exactly one key per input identifier.  Identifiers [1, 2, 3]     *)
(* with chunk_size 2 give the batches [1, 2] and [3], two calls of         *)
(* _request_with_retry and a merged result of 3 keys.                      *)
(***************************************************************************)
C13_OneEntryPerIdentifier ==
    FetchReturned =>
        LET ids == {input_ids[i] : i \in 1..Len(input_ids)}
            all_succeed ==
                /\ Len(batch_results) = Len(batches)
                /\ \A b \in 1..Len(batches) :
                      batch_results[b] = Cleaned(EchoData(batches[b]).v)
        IN /\ ret.t = "map"
           /\ DOMAIN ret.v \subseteq ids
           /\ Cardinality(DOMAIN ret.v) <= Len(input_ids)
           /\ (Cardinality(ids) = Len(input_ids) /\ all_succeed) =>
                 /\ DOMAIN ret.v = ids
                 /\ Cardinality(DOMAIN ret.v) = Len(input_ids)
                 /\ \A id \in ids : ret.v[id] = CleanRecordOf(id)
           /\ (input_ids = <<1, 2, 3>> /\ chunk_size = 2) =>
                 /\ batches = <<Fragment(TRUE, <<1, 2>>), Fragment(TRUE, <<3>>)>>
                 /\ Len(batch_results) = 2
                 /\ all_succeed => DOMAIN ret.v = {1, 2, 3}

C13_Witness ==
    /\ FetchReturned
    /\ input_ids = <<1, 2, 3>>
    /\ chunk_size = 2
    /\ Len(batch_results) = 2
    /\ Truthy(batch_results[1])
    /\ Truthy(batch_results[2])
    /\ DOMAIN ret.v = {1, 2, 3}

(***************************************************************************)
(* C14: within one call of _query_service the token is refreshed at most   *)
(* once and the service POST is sent at most twice: a refresh happens only *)
(* after a 401 on the first POST, the POST is sent again only if that      *)
(* refresh succeeded, a failed refresh ends the call in None with no       *)
(* second POST, and a 401 on the second POST brings no further refresh or  *)
(* POST.                                                                   *)
(***************************************************************************)
C14_OneRefreshTwoPosts ==
    (op \in {"_query_service", "fetch_data_service"} /\ last.reason # "none") =>
        LET net == last.net
            answers == last.answers
            posts == Cardinality({i \in 1..Len(net) : net[i].e = "POST"})
            refreshes == Cardinality({i \in 1..Len(net) : net[i].e = "TOKEN"})
            unauthorized(r) == ~r.exc /\ r.status = 401
        IN /\ posts <= 2
           /\ refreshes <= 1
           /\ Len(answers) = Len(net)
           /\ Len(net) >= 1 => net[1].e = "POST"
           /\ Len(net) >= 2 => net[2].e = "TOKEN" /\ unauthorized(answers[1])
           /\ (Len(net) >= 1 /\ unauthorized(answers[1])) => refreshes = 1
           /\ Len(net) >= 3 =>
                 /\ Len(net) = 3
                 /\ net[3].e = "POST"
                 /\ Truthy(_get_token(answers[2]))
           /\ (Len(net) >= 2 /\ Truthy(_get_token(answers[2]))) => posts = 2
           /\ (Len(net) >= 2 /\ ~Truthy(_get_token(answers[2]))) =>
                 /\ posts = 1
                 /\ last.ret = None
                 /\ last.reason = "refresh_failed"
           /\ (Len(net) = 3 /\ unauthorized(answers[3])) => last.ret = None

C14_Witness ==
    /\ pc = "returned"
    /\ op = "_query_service"
    /\ Len(last.net) = 2
    /\ last.net[2].e = "TOKEN"
    /\ last.reason = "refresh_failed"
    /\ ret = None

(***************************************************************************)
(* C15: _refresh_token asks for a token again; when the token request      *)
(* yields a token the stored token is replaced by it and True is returned; *)
(* when it fails (a non-200 answer, a transport failure or no token in the *)
(* body) the stored token is left exactly as it was and False is returned. *)
(***************************************************************************)
C15_RefreshFrame ==
    /\ (op = "_refresh_token" /\ pc = "returned") =>
          LET tr == last.answers[1]
              yields == /\ ~tr.exc
                        /\ tr.status = 200
                        /\ tr.body.t = "map"
                        /\ "access_token" \in DOMAIN tr.body.v
                        /\ Held(tr.body.v["access_token"])
          IN /\ last.net = <<TokenEvent>>
             /\ yields => token = tr.body.v["access_token"] /\ ret = Scalar("True")
             /\ ~yields => token = token0 /\ ret = Scalar("False")
    /\ (op = "_query_service" /\ pc = "returned" /\ last.reason = "refresh_failed") =>
          token = token0

C15_Witness ==
    /\ op = "_refresh_token"
    /\ pc = "returned"
    /\ Held(token0)
    /\ Held(token)
    /\ token # token0
    /\ ret = Scalar("True")

C17_NeverEmptyList ==
    /\ pc = "collect" =>
          /\ response = None \/ (response.t = "list" /\ response.v # <<>>)
          /\ log # <<>>
          /\ log[Len(log)].e = "query"
          /\ Truthy(response) =>
                /\ response = last.ret
                /\ log[Len(log)].r = "ok"
                /\ \A i \in 1..(Len(log) - 1) : log[i].r # "ok"
    /\ \A b \in 1..Len(batch_results) :
          batch_results[b] = None \/ Truthy(batch_results[b])
    /\ ( /\ op = "fetch_data_service"
         /\ pc \in {"retry", "collect"}
         /\ last.reason = "ok"
         /\ last.ret = EmptyList ) =>
            /\ pc = "retry" =>
                  /\ attempt >= 2
                  /\ Len(log) >= 2
                  /\ log[Len(log) - 1] = [e |-> "query", d |-> 0, r |-> "fail"]
                  /\ log[Len(log)] = SleepEvent(retry_delay * (2 ^ (attempt - 2)))
            /\ pc = "collect" =>
                  /\ response = None
                  /\ Queries(log) = max_retries

C17_Witness ==
    /\ pc = "collect"
    /\ response = None
    /\ last.reason = "ok"
    /\ last.ret = EmptyList
    /\ max_retries = 2
    /\ Queries(log) = 2

(***************************************************************************)
(* C18: for every aggregated result and every list of error keys, the keys *)
(* of the accumulator accumulate_errors_in_data returns are keys of the    *)
(* aggregated result, and an identifier is in the accumulator only if its  *)
(* record holds at least one of the error-bearing keys.                    *)
(***************************************************************************)
C18_AccumulatorSubset ==
    pc = "accumulated" =>
        /\ DOMAIN data_with_error.v \subseteq DOMAIN fetched_data.v
        /\ \A id \in DOMAIN data_with_error.v :
              \E i \in 1..Len(error_keys) :
                 error_keys[i] \in DOMAIN fetched_data.v[id].v

C18_Witness ==
    /\ pc = "accumulated"
    /\ error_keys = <<"errorX", "errorY">>
    /\ DOMAIN fetched_data.v = {"A", "B"}
    /\ DOMAIN fetched_data.v["B"].v = {"ok"}
    /\ DOMAIN data_with_error.v = {"A"}

(***************************************************************************)
(* C19: extract_errors visits the error keys in order and, for each key    *)
(* the record holds: a mapping with an "error" entry contributes that      *)
(* entry (its elements in order when it is a list, the single value        *)
(* otherwise), a mapping without one contributes nothing, and a value that *)
(* is not a mapping is appended as it is.  The result follows the order of *)
(* the error keys, then the order within each list, and a key that is not  *)
(* an error key never contributes.                                         *)
(***************************************************************************)
C19_ExtractOrder ==
    (op = "extract_errors" /\ pc = "return") =>
        /\ out = List(OrderedErrors(arg, error_keys))
        /\ error_keys = <<"errorZ">> => out = EmptyList
        /\ ( /\ error_keys = <<"errorY", "errorX">>
             /\ arg = RecordWith({"errorX", "errorY", "ok"},
                                 Map([error |-> List(<<E1, E2>>)]), Scalar("rawY")) ) =>
                out = List(<<Scalar("rawY"), E1, E2>>)

C19_Witness ==
    /\ op = "extract_errors"
    /\ pc = "return"
    /\ error_keys = <<"errorY", "errorX">>
    /\ DOMAIN arg.v = {"errorX", "errorY", "ok"}
    /\ out = List(<<Scalar("rawY"), E1, E2>>)

(***************************************************************************)
(* C20: when the same identifier key comes in more than one record, in     *)
(* different batches or in the same batch, the merge is last-write-wins:   *)
(* the mapping holds for that key the record that comes last in batch      *)
(* order and response order, and the earlier records of the key are        *)
(* overwritten.                                                            *)
(***************************************************************************)
C20_LastWriteWins ==
    (op = "format_response" /\ pc = "return") =>
        LET positions ==
                {p \in (1..Len(batch_results)) \X (1..Len(total_data)) :
                    /\ Truthy(batch_results[p[1]])
                    /\ p[2] <= Len(batch_results[p[1]].v)}
            item(p) == batch_results[p[1]].v[p[2]]
            before(p, q) == p[1] < q[1] \/ (p[1] = q[1] /\ p[2] < q[2])
        IN /\ out.t = "map"
           /\ Len(total_data) = Cardinality(positions)
           /\ DOMAIN out.v = UNION {DOMAIN item(p).v : p \in positions}
           /\ \A k \in DOMAIN out.v :
                 \E p \in positions :
                    /\ k \in DOMAIN item(p).v
                    /\ out.v[k] = item(p).v[k]
                    /\ \A q \in positions :
                          k \in DOMAIN item(q).v => (q = p \/ before(q, p))

C20_Witness ==
    /\ op = "format_response"
    /\ pc = "return"
    /\ batch_results = <<List(<<Map([k \in {"A"} |-> R1]), Map([k \in {"B"} |-> R1])>>),
                         List(<<Map([k \in {"A"} |-> R2])>>)>>
    /\ out = Map([k \in {"A", "B"} |-> IF k = "A" THEN R2 ELSE R1])

(***************************************************************************)
(* C21: check_health, when the service is recognized and a token is held,  *)
(* sends exactly one GET carrying the stored token and returns its status  *)
(* code and body whatever the status (401 and 5xx included), or None on a  *)
(* transport error; it never retries, sleeps or refreshes the token, and   *)
(* the stored token is left as it was.                                     *)
(***************************************************************************)
C21_HealthSingleGet ==
    ( /\ op = "check_health"
      /\ pc = "returned"
      /\ ValidateService(service_name, token0) ) =>
        /\ last.net = <<GetEvent(token0, token0)>>
        /\ Len(last.answers) = 1
        /\ last.answers[1].exc => ret = None
        /\ ~last.answers[1].exc =>
              ret = [t |-> "tuple",
                     v |-> <<last.answers[1].status, last.answers[1].body>>]
        /\ token = token0
        /\ log = <<>>
        /\ pauses = <<>>
        /\ batches = <<>>

C21_Witness ==
    /\ op = "check_health"
    /\ pc = "returned"
    /\ Held(token0)
    /\ last.answers[1].status = 401
    /\ ret.t = "tuple"
    /\ ret.v[1] = 401
    /\ token = token0

(***************************************************************************)
(* C22: whether a token is held is fixed at construction: across any       *)
(* sequence of fetch_data_service, _query_service and check_health calls   *)
(* and whatever the server answers, a held token is only ever replaced by  *)
(* another non-empty token and never becomes unset, and a client built     *)
(* with an unset token never acquires one, every operation stopping at     *)
(* _check_instance before any request.                                     *)
(***************************************************************************)
C22_TokenHeldFixed ==
    /\ Held(ConstructionToken) => Held(token) /\ Held(token0)
    /\ ~Held(ConstructionToken) =>
          /\ token = ConstructionToken
          /\ token0 = ConstructionToken
          /\ last.net = <<>>
          /\ batches = <<>>
          /\ pc = "returned" => ret = None /\ ~requested

C22_Witness ==
    /\ pc = "returned"
    /\ op = "_query_service"
    /\ Held(ConstructionToken)
    /\ token0 # ConstructionToken
    /\ token # token0
    /\ Held(token)

(***************************************************************************)
(* C23: every authenticated request (service POST or health GET) carries   *)
(* the token stored in the client at the moment it is sent: after a        *)
(* successful refresh the retried POST and every request of every later    *)
(* attempt and later batch carry the refreshed token, and the superseded   *)
(* token is not sent again.                                                *)
(***************************************************************************)
C23_RequestsCarryStoredToken ==
    [][ (pc \in {"retry", "idle"} /\ last'.net # <<>>) =>
           LET net == last'.net
           IN /\ \A i \in 1..Len(net) :
                    net[i].e \in {"POST", "GET"} => net[i].hdr = net[i].stored
              /\ net[1].e \in {"POST", "GET"}
              /\ net[1].hdr = token
              /\ Len(net) <= 2 => token' = token
              /\ Len(net) = 3 =>
                    /\ token' = _get_token(last'.answers[2])
                    /\ net[3].hdr = token' ]_vars

C23_Witness ==
    /\ op = "fetch_data_service"
    /\ pc \in {"retry", "collect"}
    /\ index >= 1
    /\ Held(token0)
    /\ token # token0
    /\ Len(last.net) = 1
    /\ last.net[1].e = "POST"
    /\ last.net[1].hdr = token

(***************************************************************************)
(* C24: fetch_data_service terminates for a finite identifier list, a      *)
(* chunk size of at least 1 and a finite max_retries, whatever the server  *)
(* answers: every step it takes lowers a rank that is never negative, and  *)
(* with B batches it makes at most B * max_retries calls of                *)
(* _query_service, at most 2 * B * max_retries service POSTs, at most      *)
(* B * max_retries token requests, at most B * (max_retries - 1) backoff   *)
(* sleeps and at most one pause.                                           *)
(***************************************************************************)
C24_TerminatesWithinBudget ==
    /\ [](pc = "returned" \/ ENABLED NextCount)
    /\ [][ /\ Rank' < Rank
          /\ Rank' >= 0
          /\ LET B == Len(person_ids')
             IN /\ Len(batches') <= B
                /\ tally'.queries <= B * max_retries
                /\ tally'.posts <= 2 * B * max_retries
                /\ tally'.tokens <= B * max_retries
                /\ tally'.sleeps <= B * (max_retries - 1)
                /\ Len(pauses') <= 1 ]_vars

C24_Witness ==
    /\ pc = "returned"
    /\ op = "fetch_data_service"
    /\ Len(person_ids) = 2
    /\ max_retries = 2
    /\ tally.queries = 4
    /\ tally.posts = 8
    /\ tally.tokens = 4
    /\ tally.sleeps = 2
    /\ pauses = <<0>>

(***************************************************************************)
(* C25: in the report pipeline (accumulate_errors_in_data followed by      *)
(* filter_dictionary) the error set and the success set partition the      *)
(* aggregated result: their key sets are disjoint, their union is the key  *)
(* set of the aggregated result, and every success record is the           *)
(* aggregated record unchanged.                                            *)
(***************************************************************************)
C25_ReportPartition ==
    (pc = "reported" /\ run = "completed") =>
        /\ DOMAIN data_with_error.v \cap DOMAIN fetched_data.v = {}
        /\ DOMAIN data_with_error.v \cup DOMAIN fetched_data.v = DOMAIN ret.v
        /\ \A k \in DOMAIN fetched_data.v : fetched_data.v[k] = ret.v[k]

C25_Witness ==
    /\ pc = "reported"
    /\ run = "completed"
    /\ DOMAIN data_with_error.v # {}
    /\ DOMAIN fetched_data.v # {}
    /\ Cardinality(DOMAIN ret.v) >= 2

====
